---- MODULE Spec2Model ----
(***************************************************************************)
(* Verification model of the client-side session/authorisation layer of    *)
(* order-whisperer: the promise-sharing request deduplication cache        *)
(* (src/src/hooks/useRequestDeduplication.tsx), the timeout wrapper        *)
(* (src/src/utils/promise.ts) and the AuthProvider state machine           *)
(* (src/src/hooks/useAuth.tsx, both variants held in that file).           *)
(*                                                                         *)
(* JavaScript is single threaded: every action below is one task or one    *)
(* promise reaction (microtask) run to completion.  A timer callback is a  *)
(* task, so it never runs while a promise reaction is still queued.        *)
(***************************************************************************)
EXTENDS Integers, Sequences, FiniteSets, TLC

(***************************************************************************)
(* Bounds of the model.                                                    *)
(***************************************************************************)
MaxReqs == 2
MaxCalls == 3
MaxWraps == 2
MaxMs == 2
MaxNotifications == 2
MaxPollCalls == 3
MaxPollTicks == 3

(***************************************************************************)
(* Program constants: the timer delays of useAuth.tsx, in seconds.         *)
(***************************************************************************)
GlobalCeilingInline == 8
GlobalCeilingWrapped == 10
ProfileTimeout == 3
TenantTimeout == 3
PosLoadingTimeout == 10
Pos2LoadingTimeout == 8
RequestTimeout == 30

(***************************************************************************)
(* Input domains.                                                          *)
(***************************************************************************)
Keys == {"tenant-lookup-p1", "tenant-lookup-p2"}
Values == {"v1", "v2"}
Errors == {"e1", "e2"}
TimeoutErrors == {"Profile fetch timed out", "Tenant lookup timed out"}

VARIABLES
  activeRequests,   \* useRequestDeduplication: Map key -> promise (0: no entry)
  reqs,             \* the promises executeRequest created, in creation order
  calls,            \* the executeRequest calls made, in call order
  wts,              \* the withTimeout wrappers created, in creation order
  variant,          \* which AuthProvider of useAuth.tsx runs: "inline" | "wrapped"
  mounted,          \* the auth effect's `mounted` flag
  subscribed,       \* whether the onAuthStateChange subscription is active
  user,             \* useState: user (a user id, or Null)
  session,          \* useState: session (named by its user, or Null)
  profile,          \* useState: profile (NoProfile stands for null)
  tenantId,         \* useState: tenantId (a tenant id, or Null)
  loading,          \* useState: loading
  globalTimeout,    \* the safety-net timer: [state, left]
  notified,         \* how many auth-change notifications were delivered
  handlers,         \* the runs of the auth-change handler that await a profile
  lookups,          \* inline variant: the runs of the async tenant lookup
  effectProfile,    \* wrapped variant: `profile` as of the last profile-effect run
  resolvers,        \* wrapped variant: the runs of resolveTenant that await
  page,             \* the protected page rendered: "pos" | "pos2" | "dashboard" | "none"
  pageMounted,      \* whether that page is mounted
  route,            \* the current route, as a path and its parameter
  slug,             \* POS page: useParams().slug
  tenant,           \* POS page: useState tenant (NoTenant stands for null)
  checkingSubscription, \* POS page: useState checkingSubscription
  loadingTimeout,   \* POS page: useState loadingTimeout
  pageTimer,        \* POS page: the loading-timeout timer: [state, left]
  slugLookup,       \* POS page: how the tenant query by slug stands
  activeKeys,       \* polling executeRequest: the Set of keys marked in flight
  pollCalls,        \* polling executeRequest: the calls made, in call order
  authCall          \* the latest call of signUp / signIn / signOut

cacheVars == <<activeRequests, reqs>>
dedupVars == <<activeRequests, reqs, calls>>
ctxVars == <<user, session, profile, tenantId, loading>>
authVars == <<variant, mounted, subscribed, user, session, profile, tenantId,
              loading, globalTimeout, notified, handlers, lookups, effectProfile,
              resolvers>>
pageVars == <<page, pageMounted, route, slug, tenant, checkingSubscription,
              loadingTimeout, pageTimer, slugLookup>>
pollVars == <<activeKeys, pollCalls>>
signVars == <<authCall>>
vars == <<activeRequests, reqs, calls, wts, authVars, pageVars, pollVars, signVars>>

(***************************************************************************)
(* Promise states.                                                         *)
(***************************************************************************)
Pending == [st |-> "pending", val |-> "none"]
Fulfilled(v) == [st |-> "ok", val |-> v]
Rejected(e) == [st |-> "err", val |-> e]
Settled(p) == p.st # "pending"
IsPending(p) == p.st = "pending"
Outcomes == {Fulfilled(v) : v \in Values} \cup {Rejected(e) : e \in Errors}

(***************************************************************************)
(* Values of the auth context.  Null stands for null / undefined, and       *)
(* NoProfile for a null profile; a stored profile carries in `src` the run  *)
(* of the handler that fetched it, as every fetch yields a new object.      *)
(***************************************************************************)
Null == "null"
NoProfile == [id |-> Null, role |-> Null, tenant_id |-> Null, src |-> 0]
NoTimer == [state |-> "none", left |-> 0]
NoTenant == [id |-> Null, subscription_plan |-> Null]

\* No protected page is rendered: the state of the page variables in the
\* specifications of the cache, of withTimeout and of the AuthProvider alone.
PageIdle ==
  /\ page = "none" /\ pageMounted = FALSE /\ route = <<"/">> /\ slug = Null
  /\ tenant = NoTenant /\ checkingSubscription = TRUE /\ loadingTimeout = FALSE
  /\ pageTimer = NoTimer /\ slugLookup = "none"

\* signUp, signIn and signOut were not called: the state of authCall in the
\* other specifications.
NoCall == [fn |-> "none", pc |-> "none", response |-> Pending, result |-> Pending]
SignIdle == authCall = NoCall

\* No call of the polling executeRequest was made: the state of its variables
\* in the other specifications.
PollIdle == activeKeys = {} /\ pollCalls = <<>>

\* The auth context before any AuthProvider is mounted: the state of the auth
\* variables in the specifications of the cache and of withTimeout alone.
AuthIdle ==
  /\ variant = "inline" /\ mounted = FALSE /\ subscribed = FALSE
  /\ user = Null /\ session = Null /\ profile = NoProfile /\ tenantId = Null
  /\ loading = TRUE /\ globalTimeout = NoTimer
  /\ notified = 0 /\ handlers = <<>> /\ lookups = <<>>
  /\ effectProfile = NoProfile /\ resolvers = <<>>

(***************************************************************************)
(* useRequestDeduplication (promise-sharing variant).                      *)
(* A request r of reqs stands for one run of lines 22-29: op is the        *)
(* promise requestFn() returned, cbRan tells whether the finally callback  *)
(* has run, shared is newRequestPromise, the promise stored in the Map and *)
(* handed to every caller.                                                 *)
(***************************************************************************)
ExistingRequest_NoLookup(k) == 0
ExistingRequest(k) == activeRequests[k]

StartsFresh(k) == ExistingRequest(k) = 0

ReturnedRequest(k) == IF StartsFresh(k) THEN Len(reqs) + 1 ELSE ExistingRequest(k)

NewRequest(k) == [key |-> k, op |-> Pending, cbRan |-> FALSE, shared |-> Pending]

ExecuteRequestCache(k) ==
  IF StartsFresh(k)
  THEN /\ Len(reqs) < MaxReqs
       /\ reqs' = Append(reqs, NewRequest(k))
       /\ activeRequests' = [activeRequests EXCEPT ![k] = Len(reqs) + 1]
  ELSE UNCHANGED <<reqs, activeRequests>>

ExecuteRequest(k) ==
  /\ Len(calls) < MaxCalls
  /\ ExecuteRequestCache(k)
  /\ calls' = Append(calls, [key |-> k, req |-> ReturnedRequest(k),
                             invoked |-> StartsFresh(k), result |-> Pending])
  /\ UNCHANGED <<wts, authVars, pageVars, pollVars, signVars>>

\* The three steps of a request q: requestFn()'s promise settles, the finally
\* callback runs, newRequestPromise settles with the same outcome.
ReqOpSettle(q, o) == [q EXCEPT !.op = o]
ReqFinally(q) == [q EXCEPT !.cbRan = TRUE]
ReqShared(q) == [q EXCEPT !.shared = q.op]

OpSettle(r, o) ==
  /\ IsPending(reqs[r].op)
  /\ reqs' = [reqs EXCEPT ![r] = ReqOpSettle(reqs[r], o)]
  /\ UNCHANGED <<activeRequests, calls, wts, authVars, pageVars, pollVars, signVars>>

Evicted_OnlyOnSuccess(r) ==
  IF reqs[r].op.st = "ok" THEN [activeRequests EXCEPT ![reqs[r].key] = 0]
  ELSE activeRequests
Evicted(r) == [activeRequests EXCEPT ![reqs[r].key] = 0]

FinallyCallback(r) ==
  /\ Settled(reqs[r].op)
  /\ ~reqs[r].cbRan
  /\ reqs' = [reqs EXCEPT ![r] = ReqFinally(reqs[r])]
  /\ activeRequests' = Evicted(r)
  /\ UNCHANGED <<calls, wts, authVars, pageVars, pollVars, signVars>>

SharedSettle(r) ==
  /\ reqs[r].cbRan
  /\ IsPending(reqs[r].shared)
  /\ reqs' = [reqs EXCEPT ![r] = ReqShared(reqs[r])]
  /\ UNCHANGED <<activeRequests, calls, wts, authVars, pageVars, pollVars, signVars>>

CallerSettle(c) ==
  /\ IsPending(calls[c].result)
  /\ Settled(reqs[calls[c].req].shared)
  /\ calls' = [calls EXCEPT ![c].result = reqs[calls[c].req].shared]
  /\ UNCHANGED <<activeRequests, reqs, wts, authVars, pageVars, pollVars, signVars>>

CacheInit ==
  /\ activeRequests = [k \in Keys |-> 0]
  /\ reqs = <<>>

DedupInit ==
  /\ CacheInit
  /\ calls = <<>>
  /\ wts = <<>>
  /\ AuthIdle
  /\ PageIdle
  /\ PollIdle /\ SignIdle

DedupNext ==
  \/ \E k \in Keys : ExecuteRequest(k)
  \/ \E r \in DOMAIN reqs : \E o \in Outcomes : OpSettle(r, o)
  \/ \E r \in DOMAIN reqs : FinallyCallback(r)
  \/ \E r \in DOMAIN reqs : SharedSettle(r)
  \/ \E c \in DOMAIN calls : CallerSettle(c)

SpecDedup == DedupInit /\ [][DedupNext]_vars

(***************************************************************************)
(* Properties of the deduplication cache.                                  *)
(***************************************************************************)
CallStep(k) == Len(calls') = Len(calls) + 1 /\ calls'[Len(calls')].key = k
NewCall == calls'[Len(calls')]
Callers(r) == {c \in DOMAIN calls : calls[c].req = r}
Invokers(r) == {c \in Callers(r) : calls[c].invoked}

C1_State ==
  \A r \in DOMAIN reqs :
    /\ Cardinality(Invokers(r)) = 1
    /\ \A c \in Callers(r) :
         Settled(calls[c].result) => calls[c].result = reqs[r].op
    /\ \A c, d \in Callers(r) :
         Settled(calls[c].result) /\ Settled(calls[d].result)
           => calls[c].result = calls[d].result

C1_Step ==
  \A k \in Keys : \A r \in DOMAIN reqs :
    CallStep(k) /\ reqs[r].key = k /\ IsPending(reqs[r].op)
      => reqs' = reqs /\ NewCall.req = r /\ ~NewCall.invoked

\* C1: calls with key K issued while an operation for K is unsettled join that
\* operation: it is invoked exactly once for all of them, no call re-invokes it,
\* and every caller completes with the operation's own outcome, the same for all.
C1_SharedOnce == [](C1_State) /\ [][C1_Step]_vars

C1_Witness ==
  \E c, d \in DOMAIN calls :
    /\ c # d /\ calls[c].req = calls[d].req
    /\ calls[c].invoked /\ ~calls[d].invoked
    /\ calls[c].result.st = "ok" /\ calls[d].result = calls[c].result

\* C2 as stated: once the operation started for K has settled, K is no longer
\* in the cache, so the next executeRequest(K, op) invokes op afresh instead of
\* returning the earlier result.
C2_Original ==
  [][\A k \in Keys :
       (CallStep(k) /\ \A r \in DOMAIN reqs : reqs[r].key = k => Settled(reqs[r].op))
         => NewCall.invoked /\ Len(reqs') = Len(reqs) + 1]_vars

C2_State ==
  \A r \in DOMAIN reqs :
    /\ reqs[r].cbRan => activeRequests[reqs[r].key] # r
    /\ Settled(reqs[r].shared) => reqs[r].cbRan
    /\ \A c \in Callers(r) : Settled(calls[c].result) => reqs[r].cbRan

C2_Step ==
  \A k \in Keys :
    (CallStep(k) /\ \A r \in DOMAIN reqs : reqs[r].key = k => reqs[r].cbRan)
      => /\ Len(reqs') = Len(reqs) + 1
         /\ NewCall.invoked /\ NewCall.req = Len(reqs')
         /\ reqs'[Len(reqs')] = NewRequest(k)

\* C2 (amended): once the eviction callback chained to the operation has run,
\* which is before the promise handed to the callers settles, K is no longer in
\* the cache and the next executeRequest(K, op) invokes op afresh, after any
\* sequence of calls and settlements.
C2_EvictedThenFresh == [](C2_State) /\ [][C2_Step]_vars

C2_Witness ==
  \E r, s \in DOMAIN reqs :
    /\ r < s /\ reqs[r].key = reqs[s].key
    /\ Settled(reqs[r].shared) /\ IsPending(reqs[s].op)
    /\ \E c \in Callers(s) : calls[c].invoked

C3_State ==
  \A r \in DOMAIN reqs :
    reqs[r].op.st = "err" =>
      /\ \A c \in Callers(r) :
           Settled(calls[c].result) => calls[c].result = reqs[r].op
      /\ Cardinality(Invokers(r)) = 1
      /\ Settled(reqs[r].shared) => activeRequests[reqs[r].key] # r
      /\ \A c \in Callers(r) :
           Settled(calls[c].result) => activeRequests[reqs[r].key] # r

C3_Step ==
  \A k \in Keys : \A r \in DOMAIN reqs :
    CallStep(k) /\ activeRequests[k] = r /\ reqs[r].op.st # "ok"
      => reqs' = reqs /\ ~NewCall.invoked

\* C3: when the operation for K fails, every caller that joined it fails with
\* that same error, no joiner re-invokes the operation, and K is evicted before
\* any caller observes the failure, as on success.
C3_SharedFailure == [](C3_State) /\ [][C3_Step]_vars

C3_Witness ==
  \E c, d \in DOMAIN calls :
    /\ c # d /\ calls[c].req = calls[d].req
    /\ ~calls[d].invoked
    /\ calls[c].result.st = "err" /\ calls[d].result = calls[c].result
    /\ activeRequests[calls[c].key] = 0

(***************************************************************************)
(* withTimeout (src/src/utils/promise.ts).                                 *)
(* A wrapper w stands for one call: op is the wrapped promise, result the  *)
(* promise withTimeout returns, timer the setTimeout handle with `left`    *)
(* time units to run, err the timeoutError supplied, and stage the         *)
(* reaction of the chain promise.then(resolve).catch(reject).finally(...)  *)
(* that is queued next ("idle": none yet, "done": all have run).           *)
(***************************************************************************)
WithTimeout(ms, err) ==
  [op |-> Pending, stage |-> "idle", timer |-> "armed", left |-> ms,
   result |-> Pending, err |-> err]

\* resolve / reject of the new Promise: only the first call settles it.
Resolve_Overwrite(w, p) == [w EXCEPT !.result = p]
Resolve(w, p) == IF IsPending(w.result) THEN [w EXCEPT !.result = p] ELSE w

\* The wrapped promise settles: its first reaction is queued.
WT_OpSettle(w, o) == [w EXCEPT !.op = o, !.stage = "then"]

\* .then(resolve): calls resolve on fulfilment, passes a rejection on.
WT_Then(w) ==
  [(IF w.op.st = "ok" THEN Resolve(w, w.op) ELSE w) EXCEPT !.stage = "catch"]

\* .catch(reject): calls reject on rejection.
WT_Catch(w) ==
  [(IF w.op.st = "err" THEN Resolve(w, w.op) ELSE w) EXCEPT !.stage = "finally"]

\* .finally(() => clearTimeout(timeoutId)): clearing a fired timer does nothing.
WT_Finally_NoClear(w) == [w EXCEPT !.stage = "done"]
WT_Finally(w) ==
  [w EXCEPT !.stage = "done",
            !.timer = IF w.timer = "armed" THEN "cleared" ELSE w.timer]

\* The setTimeout callback: reject(timeoutError).
WT_TimerFire_DefaultError(w) ==
  [Resolve(w, Rejected("Operation timed out")) EXCEPT !.timer = "fired"]
WT_TimerFire(w) == [Resolve(w, Rejected(w.err)) EXCEPT !.timer = "fired"]

WT_ReactionQueued(w) == w.stage \in {"then", "catch", "finally"}
WT_TimerDue(w) == w.timer = "armed" /\ w.left = 0
WT_Tick(w) ==
  IF w.timer = "armed" /\ w.left > 0 THEN [w EXCEPT !.left = w.left - 1] ELSE w

\* All reactions of a settled wrapped promise, run in their queue order.
WT_Settle(w, o) == WT_Finally(WT_Catch(WT_Then(WT_OpSettle(w, o))))

WtCall(ms, err) ==
  /\ Len(wts) < MaxWraps
  /\ wts' = Append(wts, WithTimeout(ms, err))
  /\ UNCHANGED <<dedupVars, authVars, pageVars, pollVars, signVars>>

WtOpSettle(i, o) ==
  /\ IsPending(wts[i].op)
  /\ wts' = [wts EXCEPT ![i] = WT_OpSettle(wts[i], o)]
  /\ UNCHANGED <<dedupVars, authVars, pageVars, pollVars, signVars>>

WtThen(i) ==
  /\ wts[i].stage = "then"
  /\ wts' = [wts EXCEPT ![i] = WT_Then(wts[i])]
  /\ UNCHANGED <<dedupVars, authVars, pageVars, pollVars, signVars>>

WtCatch(i) ==
  /\ wts[i].stage = "catch"
  /\ wts' = [wts EXCEPT ![i] = WT_Catch(wts[i])]
  /\ UNCHANGED <<dedupVars, authVars, pageVars, pollVars, signVars>>

WtFinally(i) ==
  /\ wts[i].stage = "finally"
  /\ wts' = [wts EXCEPT ![i] = WT_Finally(wts[i])]
  /\ UNCHANGED <<dedupVars, authVars, pageVars, pollVars, signVars>>

\* A timer callback is a task: it runs when due and no reaction is queued.
WtTimerFire(i) ==
  /\ WT_TimerDue(wts[i])
  /\ \A j \in DOMAIN wts : ~WT_ReactionQueued(wts[j])
  /\ wts' = [wts EXCEPT ![i] = WT_TimerFire(wts[i])]
  /\ UNCHANGED <<dedupVars, authVars, pageVars, pollVars, signVars>>

\* Time passes once every due timer has run and no reaction is queued.
WtTick ==
  /\ \E i \in DOMAIN wts : wts[i].timer = "armed"
  /\ \A i \in DOMAIN wts : ~WT_TimerDue(wts[i]) /\ ~WT_ReactionQueued(wts[i])
  /\ wts' = [i \in DOMAIN wts |-> WT_Tick(wts[i])]
  /\ UNCHANGED <<dedupVars, authVars, pageVars, pollVars, signVars>>

TimeoutNext ==
  \/ \E ms \in 1..MaxMs : \E err \in TimeoutErrors : WtCall(ms, err)
  \/ \E i \in DOMAIN wts : \E o \in Outcomes : WtOpSettle(i, o)
  \/ \E i \in DOMAIN wts : WtThen(i)
  \/ \E i \in DOMAIN wts : WtCatch(i)
  \/ \E i \in DOMAIN wts : WtFinally(i)
  \/ \E i \in DOMAIN wts : WtTimerFire(i)
  \/ WtTick

SpecTimeout == DedupInit /\ [][TimeoutNext]_vars

(***************************************************************************)
(* Properties of withTimeout.                                              *)
(***************************************************************************)
TimerFires(i) == wts[i].timer = "armed" /\ wts'[i].timer = "fired"

C4_State ==
  \A i \in DOMAIN wts :
    /\ wts[i].timer = "fired" /\ IsPending(wts[i].op)
         => wts[i].result = Rejected(wts[i].err)
    /\ wts[i].op.st = "ok" /\ wts[i].timer # "fired" /\ wts[i].stage = "done"
         => wts[i].result = wts[i].op

C4_Step ==
  \A i \in DOMAIN wts :
    /\ TimerFires(i) /\ IsPending(wts[i].op)
         => wts'[i].result = Rejected(wts[i].err)
    /\ wts[i].stage = "then" /\ wts'[i].stage = "catch"
        /\ wts[i].op.st = "ok" /\ wts[i].timer = "armed"
         => wts'[i].result = wts[i].op

\* C4: withTimeout(op, ms, err) fails with err when the timer fires while op is
\* unsettled, and succeeds with op's value when op resolves before the timer
\* fires.
C4_TimeoutOrValue == [](C4_State) /\ [][C4_Step]_vars

C4_Witness ==
  \E i, j \in DOMAIN wts :
    /\ wts[i].timer = "fired" /\ IsPending(wts[i].op)
    /\ wts[i].result = Rejected(wts[i].err)
    /\ wts[j].timer = "cleared" /\ wts[j].op.st = "ok"
    /\ wts[j].result = wts[j].op

C5_State ==
  \A i \in DOMAIN wts :
    /\ wts[i].op.st = "err" /\ wts[i].timer # "fired" /\ wts[i].stage = "done"
         => wts[i].result = wts[i].op
    /\ wts[i].stage = "done" /\ wts[i].timer # "fired" => wts[i].timer = "cleared"
    /\ wts[i].timer = "fired" => wts[i].result = Rejected(wts[i].err)

C5_Step ==
  \A i \in DOMAIN wts :
    /\ Settled(wts[i].result) => wts'[i].result = wts[i].result
    /\ Settled(wts[i].op) => ~TimerFires(i)

\* C5: the outcome of withTimeout is fixed by whichever of op and the timer
\* settles first and never changes: an op that rejects first gives op's own
\* error, the timer is cleared once op has settled and never fires after that,
\* and after a timeout op can still settle but leaves the outcome unchanged.
C5_FirstSettles == [](C5_State) /\ [][C5_Step]_vars

C5_Witness ==
  \E i, j \in DOMAIN wts :
    /\ wts[i].timer = "fired" /\ wts[i].stage = "done" /\ wts[i].op.st = "ok"
    /\ wts[i].result = Rejected(wts[i].err)
    /\ wts[j].timer = "cleared" /\ wts[j].op.st = "err"
    /\ wts[j].result = wts[j].op

(***************************************************************************)
(* The backend, as the AuthProvider sees it.                               *)
(***************************************************************************)
Users == {"u1", "u2"}
SUPER_ADMIN == "super_admin"
RESTAURANT_OWNER == "restaurant_owner"

\* The rows the `profiles` table may hold for a user (by user_id).
ProfileRows(u) ==
  IF u = "u1"
  THEN {[id |-> "p1", role |-> RESTAURANT_OWNER, tenant_id |-> Null, src |-> 0],
        [id |-> "p1", role |-> RESTAURANT_OWNER, tenant_id |-> "t2", src |-> 0]}
  ELSE {[id |-> "p2", role |-> SUPER_ADMIN, tenant_id |-> Null, src |-> 0],
        [id |-> "p2", role |-> "staff", tenant_id |-> "t1", src |-> 0]}

\* The ways the profile query of handler run h for user u can settle: a row,
\* an error payload (.single() finds no row), or a rejection.
ProfileResults(u, h) ==
  {Fulfilled([data |-> [p EXCEPT !.src = h], error |-> Null]) : p \in ProfileRows(u)}
    \cup {Fulfilled([data |-> NoProfile, error |-> "PGRST116"]),
          Rejected([data |-> NoProfile, error |-> "Failed to fetch"])}

ProfileTimeoutError == [data |-> NoProfile, error |-> "Profile fetch timed out"]

\* The tenant a profile id owns (tenants.owner_id), and the ways the ownership
\* query (.maybeSingle()) can settle: the row, no row, an error payload, or a
\* rejection.
OwnedTenant(pid) == IF pid = "p1" THEN "t1" ELSE "t3"

TenantResults(pid) ==
  {Fulfilled([data |-> OwnedTenant(pid), error |-> Null]),
   Fulfilled([data |-> Null, error |-> Null]),
   Fulfilled([data |-> Null, error |-> "PGRST301"]),
   Rejected([data |-> Null, error |-> "Failed to fetch"])}

KeyOf(pid) == IF pid = "p1" THEN "tenant-lookup-p1" ELSE "tenant-lookup-p2"
PidOf(k) == IF k = "tenant-lookup-p1" THEN "p1" ELSE "p2"

(***************************************************************************)
(* AuthProvider (src/src/hooks/useAuth.tsx).  The file holds two versions: *)
(* the inline one (lines 46-236: 8 s safety net, bare profile query,       *)
(* tenant lookup started by the handler) and the timeout-wrapped one       *)
(* (lines 295-533: 10 s safety net, withTimeout around the profile query,  *)
(* tenant resolved by an effect on [profile] through executeRequest and    *)
(* withTimeout).  `variant` selects the one that runs.  The test-only      *)
(* mock-auth-state path (lines 55-62, 305-312) is not part of the model.   *)
(***************************************************************************)
GlobalCeiling == IF variant = "inline" THEN GlobalCeilingInline ELSE GlobalCeilingWrapped

\* `loading` as the auth effect's closure captured it: the effect runs once,
\* after the first render, where useState(true) gives true.
LoadingAtMount == TRUE

\* A bare `await promise`: the awaiting code sees the promise's own outcome.
NoTimeout == [op |-> Pending, stage |-> "idle", timer |-> "none", left |-> 0,
              result |-> Pending, err |-> ProfileTimeoutError]
Await(w, o) == [w EXCEPT !.op = o, !.result = o, !.stage = "done"]
SettleAwaited(w, o) == IF w.timer = "none" THEN Await(w, o) ELSE WT_Settle(w, o)

\* A wrapper whose promise and result have both settled and whose reactions
\* have all run is referenced by nothing: only that it is over is kept.
Over(w) ==
  [w EXCEPT !.op = [st |-> "over", val |-> w.err],
            !.result = [st |-> "over", val |-> w.err],
            !.left = 0,
            !.timer = IF w.timer = "none" THEN "none" ELSE "over"]

AuthInit ==
  /\ variant \in {"inline", "wrapped"}
  /\ mounted = TRUE /\ subscribed = TRUE
  /\ user = Null /\ session = Null /\ profile = NoProfile /\ tenantId = Null
  /\ loading = TRUE
  /\ globalTimeout = [state |-> "armed", left |-> GlobalCeiling]
  /\ notified = 0 /\ handlers = <<>> /\ lookups = <<>>
  /\ effectProfile = NoProfile /\ resolvers = <<>>
  /\ CacheInit /\ calls = <<>> /\ wts = <<>>
  /\ PageIdle
  /\ PollIdle /\ SignIdle

\* setProfile(null) of the no-session branch (lines 89, 341).
ProfileAfterNoSession_Keep == profile
ProfileAfterNoSession == NoProfile

\* The auth-change handler up to its first await (lines 77-103, 326-356).
Notify(s) ==
  /\ IF ~mounted
     THEN UNCHANGED <<ctxVars, handlers, notified>>
     ELSE /\ notified < MaxNotifications
          /\ notified' = notified + 1
          /\ session' = s
          /\ user' = s
          /\ IF s = Null
             THEN /\ profile' = ProfileAfterNoSession
                  /\ tenantId' = IF variant = "inline" THEN Null ELSE tenantId
                  /\ loading' = FALSE
                  /\ UNCHANGED handlers
             ELSE /\ handlers' = Append(handlers,
                       [user |-> s, pc |-> "awaiting",
                        wt |-> IF variant = "inline" THEN NoTimeout
                               ELSE WithTimeout(ProfileTimeout, ProfileTimeoutError)])
                  /\ UNCHANGED <<profile, tenantId, loading>>
  /\ UNCHANGED <<signVars, pollVars, pageVars, variant, mounted, subscribed, globalTimeout, lookups,
                 effectProfile, resolvers, cacheVars, calls, wts>>

\* What the handler does with the outcome a of its await (lines 105-147,
\* 358-380): the value it leaves in profile and in loading, how it exits, and
\* whether the inline variant starts its tenant lookup.
ProfileAfterFetch_KeepOnFailure(a) ==
  IF ~mounted THEN profile
  ELSE IF a.st = "err" \/ a.val.error # Null THEN profile
  ELSE a.val.data
ProfileAfterFetch_LatestOnly(a) ==
  IF ~mounted THEN profile
  ELSE IF a.st = "err" THEN NoProfile
  ELSE IF a.val.error # Null THEN NoProfile
  ELSE IF a.val.data.src # Len(handlers) THEN profile
  ELSE a.val.data
ProfileAfterFetch(a) ==
  IF ~mounted THEN profile
  ELSE IF a.st = "err" THEN NoProfile
  ELSE IF a.val.error # Null THEN NoProfile
  ELSE a.val.data

LoadingAfterFetch_OnSuccessOnly(a) ==
  IF mounted /\ a.st = "ok" /\ a.val.error = Null THEN FALSE ELSE loading
LoadingAfterFetch_OnFailureOnly(a) ==
  IF mounted /\ (a.st = "err" \/ a.val.error # Null) THEN FALSE ELSE loading
LoadingAfterFetch_SpinnerOnFailure(a) ==
  IF mounted THEN a.st = "err" ELSE loading
LoadingAfterFetch(a) == IF mounted THEN FALSE ELSE loading

\* The await sits inside try { } catch { }: a rejection is caught there.
HandlerExit_Uncaught(a) == IF a.st = "err" THEN "threw" ELSE "returned"
HandlerExit(a) == "returned"

StartsLookup(a) ==
  /\ variant = "inline" /\ mounted
  /\ a.st = "ok" /\ a.val.error = Null
  /\ a.val.data.role = RESTAURANT_OWNER

HandlerContinue(h, a) ==
  /\ profile' = ProfileAfterFetch(a)
  /\ loading' = LoadingAfterFetch(a)
  /\ lookups' = IF StartsLookup(a)
                THEN Append(lookups, [pid |-> a.val.data.id, src |-> a.val.data.src,
                                      pc |-> "awaiting", got |-> "pending"])
                ELSE lookups
  /\ UNCHANGED <<user, session, tenantId>>

\* The profile query settles.  Its reactions run at once: the withTimeout
\* chain (wrapped variant) and, unless a timeout came first, the handler.
ProfileFetchSettles(h, o) ==
  /\ IsPending(handlers[h].wt.op)
  /\ LET w == SettleAwaited(handlers[h].wt, o)
     IN IF IsPending(handlers[h].wt.result)
        THEN /\ handlers' = [handlers EXCEPT ![h].wt = Over(w),
                                              ![h].pc = HandlerExit(w.result)]
             /\ HandlerContinue(h, w.result)
        ELSE /\ handlers' = [handlers EXCEPT ![h].wt = Over(w)]
             /\ UNCHANGED <<ctxVars, lookups>>
  /\ UNCHANGED <<signVars, pollVars, pageVars, variant, mounted, subscribed, globalTimeout, notified,
                 effectProfile, resolvers, cacheVars, calls, wts>>

\* The 3 s timer of withTimeout(profilePromise, ...) fires (line 356).
HandlerTimerFire(h) ==
  /\ WT_TimerDue(handlers[h].wt)
  /\ LET w == WT_TimerFire(handlers[h].wt)
     IN IF IsPending(handlers[h].wt.result)
        THEN /\ handlers' = [handlers EXCEPT ![h].wt = w,
                                              ![h].pc = HandlerExit(w.result)]
             /\ HandlerContinue(h, w.result)
        ELSE /\ handlers' = [handlers EXCEPT ![h].wt = w]
             /\ UNCHANGED <<ctxVars, lookups>>
  /\ UNCHANGED <<signVars, pollVars, pageVars, variant, mounted, subscribed, globalTimeout, notified,
                 effectProfile, resolvers, cacheVars, calls, wts>>

\* What a tenant lookup ended with: a row, no row, a failure or a timeout.
GotInline(q) ==
  IF q.st = "err" \/ q.val.error # Null THEN "failed"
  ELSE IF q.val.data # Null THEN "row" ELSE "none"
Got(a) ==
  IF a.st = "err" THEN IF a.val = "Tenant lookup timed out" THEN "timeout" ELSE "failed"
  ELSE IF a.val # Null THEN "row" ELSE "none"

\* Inline variant: the tenant lookup started at lines 121-135 settles.
LookupSettles(i, q) ==
  /\ lookups[i].pc = "awaiting"
  /\ lookups' = [lookups EXCEPT ![i].pc = "done", ![i].got = GotInline(q)]
  /\ tenantId' = IF q.st = "ok" /\ mounted /\ q.val.data # Null
                 THEN q.val.data ELSE tenantId
  /\ UNCHANGED <<signVars, pollVars, pageVars, variant, mounted, subscribed, user, session, profile, loading,
                 globalTimeout, notified, handlers, effectProfile, resolvers,
                 cacheVars, calls, wts>>

\* Wrapped variant: requestFn of lines 420-432 turns the query result q into
\* the outcome of the operation handed to executeRequest.
RequestFnOutcome(q) ==
  IF q.st = "err" THEN Rejected(q.val.error)
  ELSE IF q.val.error # Null THEN Rejected(q.val.error)
  ELSE Fulfilled(q.val.data)

\* tenant?.id || null (line 438), and the catch block (line 447).
TenantAfterLookup_KeepOnFailure(a) == IF a.st = "ok" /\ a.val # Null THEN a.val ELSE tenantId
TenantAfterLookup(a) == IF a.st = "ok" THEN a.val ELSE Null

\* Wrapped variant: the effect on [profile] (lines 395-456) runs after a render
\* in which profile changed: the cleanup of its previous run, then
\* resolveTenant up to its await.
TenantByPolicy_OwnerFirst(p) ==
  IF p = NoProfile THEN "clear"
  ELSE IF p.role = RESTAURANT_OWNER THEN "lookup"
  ELSE IF p.tenant_id # Null THEN "direct"
  ELSE "clear"
TenantByPolicy(p) ==
  IF p = NoProfile THEN "clear"
  ELSE IF p.tenant_id # Null THEN "direct"
  ELSE IF p.role = RESTAURANT_OWNER THEN "lookup"
  ELSE "clear"

CleanedUp_Nothing(rs) == rs
CleanedUp(rs) == [i \in DOMAIN rs |-> [rs[i] EXCEPT !.mounted = FALSE]]

RunProfileEffect ==
  /\ variant = "wrapped"
  /\ mounted
  /\ profile # effectProfile
  /\ effectProfile' = profile
  /\ LET how == TenantByPolicy(profile)
     IN IF how = "lookup"
        THEN /\ ExecuteRequestCache(KeyOf(profile.id))
             /\ resolvers' = Append(CleanedUp(resolvers),
                   [pid |-> profile.id, src |-> profile.src, mounted |-> TRUE,
                    pc |-> "awaiting", got |-> "pending",
                    req |-> ReturnedRequest(KeyOf(profile.id)),
                    wt |-> WithTimeout(TenantTimeout, "Tenant lookup timed out")])
             /\ UNCHANGED tenantId
        ELSE /\ resolvers' = CleanedUp(resolvers)
             /\ tenantId' = IF how = "direct" THEN profile.tenant_id ELSE Null
             /\ UNCHANGED cacheVars
  /\ UNCHANGED <<signVars, pollVars, pageVars, variant, mounted, subscribed, user, session, profile, loading,
                 globalTimeout, notified, handlers, lookups, calls, wts>>

\* The resolveTenant runs that await request r and have not timed out.
Awaiting(r) ==
  {i \in DOMAIN resolvers : resolvers[i].req = r /\ IsPending(resolvers[i].wt.op)}
Writers_AfterTimeout(r) == {i \in Awaiting(r) : resolvers[i].mounted}
Writers(r) ==
  {i \in Awaiting(r) : IsPending(resolvers[i].wt.result) /\ resolvers[i].mounted}

\* Wrapped variant: the ownership query of request r settles.  Its reactions
\* run at once: requestFn returns or throws, the cache evicts the key, the
\* shared promise settles, and every resolveTenant run awaiting it goes on.
TenantOpSettles(r, q) ==
  /\ variant = "wrapped"
  /\ IsPending(reqs[r].op)
  /\ LET o == RequestFnOutcome(q)
     IN /\ reqs' = [reqs EXCEPT ![r] = ReqShared(ReqFinally(ReqOpSettle(reqs[r], o)))]
        /\ activeRequests' = Evicted(r)
        /\ resolvers' = [i \in DOMAIN resolvers |->
              IF i \in Awaiting(r)
              THEN [resolvers[i] EXCEPT
                      !.wt = Over(WT_Settle(resolvers[i].wt, o)),
                      !.pc = "done",
                      !.got = IF IsPending(resolvers[i].wt.result) THEN Got(o) ELSE @]
              ELSE resolvers[i]]
        /\ tenantId' = IF Writers(r) = {} THEN tenantId ELSE TenantAfterLookup(o)
  /\ UNCHANGED <<signVars, pollVars, pageVars, variant, mounted, subscribed, user, session, profile, loading,
                 globalTimeout, notified, handlers, lookups, effectProfile,
                 calls, wts>>

\* Wrapped variant: the 3 s timer of withTimeout(tenantLookupPromise, ...)
\* fires (line 435) and resolveTenant goes to its catch block.
ResolverTimerFire(i) ==
  /\ WT_TimerDue(resolvers[i].wt)
  /\ LET w == WT_TimerFire(resolvers[i].wt)
     IN /\ resolvers' = [resolvers EXCEPT ![i].wt = w, ![i].pc = "done",
                                          ![i].got = Got(w.result)]
        /\ tenantId' = IF IsPending(resolvers[i].wt.result) /\ resolvers[i].mounted
                       THEN TenantAfterLookup(w.result) ELSE tenantId
  /\ UNCHANGED <<signVars, pollVars, pageVars, variant, mounted, subscribed, user, session, profile, loading,
                 globalTimeout, notified, handlers, lookups, effectProfile,
                 cacheVars, calls, wts>>

\* The safety-net timer fires (lines 68-73, 317-322).
GlobalForces_UnlessNotified == mounted /\ LoadingAtMount /\ notified = 0
GlobalForces == mounted /\ LoadingAtMount

GlobalTimeoutFire ==
  /\ globalTimeout.state = "armed" /\ globalTimeout.left = 0
  /\ globalTimeout' = [globalTimeout EXCEPT !.state = "fired"]
  /\ loading' = IF GlobalForces THEN FALSE ELSE loading
  /\ UNCHANGED <<signVars, pollVars, pageVars, variant, mounted, subscribed, user, session, profile, tenantId,
                 notified, handlers, lookups, effectProfile, resolvers,
                 cacheVars, calls, wts>>

\* One second passes: every armed timer comes one second closer.  A due timer
\* runs before more time passes.
TimerTick(t) ==
  IF t.state = "armed" /\ t.left > 0 THEN [t EXCEPT !.left = t.left - 1] ELSE t

ArmedTimers ==
  (IF globalTimeout.state = "armed" THEN {globalTimeout.left} ELSE {})
    \cup {handlers[h].wt.left : h \in {x \in DOMAIN handlers : handlers[x].wt.timer = "armed"}}
    \cup {resolvers[i].wt.left : i \in {x \in DOMAIN resolvers : resolvers[x].wt.timer = "armed"}}

Tick ==
  /\ ArmedTimers # {}
  /\ 0 \notin ArmedTimers
  /\ globalTimeout' = TimerTick(globalTimeout)
  /\ handlers' = [h \in DOMAIN handlers |-> [handlers[h] EXCEPT !.wt = WT_Tick(handlers[h].wt)]]
  /\ resolvers' = [i \in DOMAIN resolvers |-> [resolvers[i] EXCEPT !.wt = WT_Tick(resolvers[i].wt)]]
  /\ UNCHANGED <<signVars, pollVars, pageVars, variant, mounted, subscribed, ctxVars, notified, lookups,
                 effectProfile, cacheVars, calls, wts>>

\* Teardown: the cleanups of both effects (lines 150-155, 387-392, 453-455).
Unmount ==
  /\ mounted
  /\ mounted' = FALSE
  /\ subscribed' = FALSE
  /\ globalTimeout' = IF globalTimeout.state = "armed"
                      THEN [state |-> "cleared", left |-> 0]
                      ELSE globalTimeout
  /\ resolvers' = CleanedUp(resolvers)
  /\ UNCHANGED <<signVars, pollVars, pageVars, variant, ctxVars, notified, handlers, lookups, effectProfile,
                 cacheVars, calls, wts>>

AuthNext ==
  \/ \E s \in Users \cup {Null} : Notify(s)
  \/ \E h \in DOMAIN handlers :
       \E o \in ProfileResults(handlers[h].user, h) : ProfileFetchSettles(h, o)
  \/ \E h \in DOMAIN handlers : HandlerTimerFire(h)
  \/ \E i \in DOMAIN lookups :
       \E q \in TenantResults(lookups[i].pid) : LookupSettles(i, q)
  \/ RunProfileEffect
  \/ \E r \in DOMAIN reqs :
       \E q \in TenantResults(PidOf(reqs[r].key)) : TenantOpSettles(r, q)
  \/ \E i \in DOMAIN resolvers : ResolverTimerFire(i)
  \/ GlobalTimeoutFire
  \/ Tick
  \/ Unmount

SpecAuth == AuthInit /\ [][AuthNext]_vars

\* Timers run when due and time goes on; a query may never settle.
FairSpecAuth ==
  /\ SpecAuth
  /\ WF_vars(Tick)
  /\ WF_vars(GlobalTimeoutFire)
  /\ WF_vars(\E h \in DOMAIN handlers : HandlerTimerFire(h))

(***************************************************************************)
(* Properties of the AuthProvider.                                         *)
(***************************************************************************)
\* A notification has been handled while the provider was mounted.
Notified == notified > 0

\* C6 as stated: after every auth-change notification received while mounted,
\* loading eventually becomes false.
C6_Original == Notified ~> ~loading

NoSessionStep == notified' = notified + 1 /\ mounted /\ handlers' = handlers

\* C6 (amended): after every auth-change notification received while mounted,
\* with or without a session and however the profile fetch ends (or never
\* ends), loading eventually becomes false unless the provider is unmounted
\* first.
C6_LoadingEnds ==
  /\ (Notified /\ mounted) ~> (~loading \/ ~mounted)
  /\ [][NoSessionStep => ~loading']_vars

C6_Witness ==
  /\ variant = "inline" /\ mounted /\ ~loading
  /\ \E h \in DOMAIN handlers : handlers[h].pc = "awaiting"

\* C7: the safety-net timer forces loading=false when the ceiling elapses while
\* the provider is mounted, whether or not a notification came or a fetch
\* settled; from then on loading is false.
C7_Ceiling ==
  /\ [](mounted /\ globalTimeout.left = 0 /\ globalTimeout.state # "armed" => ~loading)
  /\ [][globalTimeout.state = "armed" /\ globalTimeout'.state = "fired" /\ mounted
          => ~loading']_vars
  /\ [](globalTimeout.state = "fired" => globalTimeout.left = 0)

C7_Witness ==
  /\ mounted /\ globalTimeout.state = "fired" /\ ~loading
  /\ notified > 0
  /\ \A h \in DOMAIN handlers : handlers[h].pc = "awaiting"
  /\ handlers # <<>>

\* C8: handling a notification with no session while mounted leaves session,
\* user and profile null and loading false, and tenantId absent: at once in
\* the inline variant, and in the wrapped variant whenever the profile effect
\* has run for a null profile.
C8_NoSession ==
  /\ [][NoSessionStep =>
          /\ session' = Null /\ user' = Null /\ profile' = NoProfile /\ ~loading'
          /\ variant = "inline" => tenantId' = Null]_vars
  /\ [](variant = "wrapped" /\ profile = NoProfile /\ effectProfile = NoProfile
          => tenantId = Null)

C8_Witness ==
  /\ handlers # <<>> /\ effectProfile = NoProfile
  /\ mounted /\ user = Null /\ session = Null /\ profile = NoProfile
  /\ tenantId = Null /\ ~loading
  /\ \E i \in DOMAIN resolvers : resolvers[i].got = "row"

\* Handler run h leaves its await without storing the row it asked for.
FetchFailed(h) ==
  /\ handlers[h].pc = "awaiting" /\ handlers'[h].pc # "awaiting"
  /\ profile'.src # h

\* C9: when the profile fetch throws, returns an error payload or (wrapped
\* variant) exceeds its deadline while the provider is mounted, the handler
\* sets profile to null and loading to false and returns normally.
C9_FetchFailureAbsorbed ==
  /\ [][\A h \in DOMAIN handlers :
          FetchFailed(h) /\ mounted
            => profile' = NoProfile /\ ~loading' /\ handlers'[h].pc = "returned"]_vars
  /\ [](\A h \in DOMAIN handlers : handlers[h].pc # "threw")

C9_Witness ==
  \E h, g \in DOMAIN handlers :
    /\ h < g /\ handlers[h].pc = "returned" /\ handlers[g].wt.timer = "fired"
    /\ handlers[g].pc = "returned" /\ globalTimeout.state = "armed"
    /\ mounted /\ profile = NoProfile /\ ~loading /\ user # Null

\* The tenant the policy gives a profile when its lookup finds the row.
ExpectedTenant(p) ==
  IF p.tenant_id # Null THEN p.tenant_id
  ELSE IF p.role = RESTAURANT_OWNER THEN OwnedTenant(p.id)
  ELSE Null

NeedsLookup(p) == p.tenant_id = Null /\ p.role = RESTAURANT_OWNER

\* Nothing that can still write tenantId is outstanding, and the lookup the
\* policy asks for, if any, returned the row.
TenantSettled ==
  /\ \A h \in DOMAIN handlers : handlers[h].pc # "awaiting"
  /\ \A i \in DOMAIN lookups : lookups[i].pc = "done"
  /\ \A i \in DOMAIN resolvers : resolvers[i].pc = "done"
  /\ variant = "wrapped" => effectProfile = profile
  /\ NeedsLookup(profile) =>
       \/ \E i \in DOMAIN lookups : lookups[i].src = profile.src /\ lookups[i].got = "row"
       \/ \E i \in DOMAIN resolvers : resolvers[i].src = profile.src /\ resolvers[i].got = "row"

\* C10: for every profile the context stores, the tenant it settles on follows
\* the policy: profile.tenant_id if present, else the owned tenant for a
\* restaurant_owner, else absent.
C10_TenantPolicy ==
  mounted /\ profile # NoProfile /\ TenantSettled => tenantId = ExpectedTenant(profile)

C10_WrappedOnly == variant = "wrapped" => C10_TenantPolicy

\* A tenant resolution ends in a failure in this step: the inline lookup of a
\* mounted provider, or a resolveTenant run whose effect was not cleaned up,
\* gets an error payload, a rejection, a timeout or no row.
LookupFails(i) ==
  /\ lookups[i].pc = "awaiting" /\ lookups'[i].pc = "done"
  /\ lookups'[i].got \in {"failed", "none"}
  /\ mounted
ResolverFails(i) ==
  /\ resolvers[i].pc = "awaiting" /\ resolvers'[i].pc = "done"
  /\ resolvers'[i].got \in {"failed", "none", "timeout"}
  /\ resolvers[i].mounted

\* C11: any failure of tenant resolution (error payload, exception, timeout,
\* no matching row) leaves tenantId absent, not a value left from before.
C11_FailureClearsTenant ==
  [][/\ \A i \in DOMAIN lookups : LookupFails(i) => tenantId' = Null
     /\ \A i \in DOMAIN resolvers : ResolverFails(i) => tenantId' = Null]_vars

\* The same for the timeout-wrapped variant alone.
C11_WrappedOnly ==
  [][\A i \in DOMAIN resolvers : ResolverFails(i) => tenantId' = Null]_vars

\* C12: after teardown the listener is unsubscribed and the safety-net timer
\* is not armed, and no step changes user, session, profile, tenantId or
\* loading: not a later notification, nor a fetch or lookup that settles late.
C12_TeardownFrame ==
  /\ [](~mounted => ~subscribed /\ globalTimeout.state # "armed")
  /\ [][~mounted => UNCHANGED ctxVars]_vars

C12_Witness ==
  /\ ~mounted /\ loading /\ user # Null
  /\ \E h \in DOMAIN handlers : handlers[h].pc = "returned"

\* isAdmin and isRestaurantOwner (lines 219-220, 516-517): profile?.role
\* compared with the role constants.
IsAdmin_NotOwner == profile.role # RESTAURANT_OWNER
IsAdmin == profile.role = SUPER_ADMIN
IsRestaurantOwner == profile.role = RESTAURANT_OWNER

\* C19: isAdmin is (profile.role = 'super_admin') and isRestaurantOwner is
\* (profile.role = 'restaurant_owner'), functions of the current profile
\* only: never both true, and both false when profile is null.
C19_RoleFlags ==
  /\ [](/\ IsAdmin <=> (profile # NoProfile /\ profile.role = "super_admin")
        /\ IsRestaurantOwner <=> (profile # NoProfile /\ profile.role = "restaurant_owner")
        /\ ~(IsAdmin /\ IsRestaurantOwner)
        /\ profile = NoProfile => ~IsAdmin /\ ~IsRestaurantOwner)
  /\ [][profile' = profile =>
          (IsAdmin' <=> IsAdmin) /\ (IsRestaurantOwner' <=> IsRestaurantOwner)]_vars

C19_Witness ==
  /\ mounted /\ IsAdmin /\ ~IsRestaurantOwner /\ user = "u2" /\ ~loading

(***************************************************************************)
(* The protected pages: POSSystem (src/src/pages/POSSystem.tsx, "pos"),    *)
(* its second version (src/unnamed/part_001, "pos2") and Dashboard         *)
(* (src/src/pages/Dashboard.tsx).  A page reads the auth context through   *)
(* useAuth(); here the context is an input that changes under it, drawn    *)
(* from Contexts, the values the AuthProvider publishes (AuthPublishes).   *)
(* The POS route always carries a slug (/pos-system/:slug), and the slug   *)
(* of a mounted page does not change.                                      *)
(***************************************************************************)
Slugs == {"a", "b"}

\* The rows the `tenants` table may hold for a slug.
TenantRows(s) ==
  LET id == IF s = "a" THEN "t1" ELSE "t2"
  IN {[id |-> id, subscription_plan |-> "premium"],
      [id |-> id, subscription_plan |-> "free"]}

\* The ways the tenant query by slug (.maybeSingle()) can settle.
SlugResults(s) ==
  {Fulfilled([data |-> r, error |-> Null]) : r \in TenantRows(s)}
    \cup {Fulfilled([data |-> NoTenant, error |-> Null]),
          Fulfilled([data |-> NoTenant, error |-> "PGRST301"]),
          Rejected([data |-> NoTenant, error |-> "Failed to fetch"])}

\* The context values a page can read.
Profiles == UNION {ProfileRows(u) : u \in Users}
Contexts ==
  {c \in [user : Users \cup {Null}, profile : Profiles \cup {NoProfile},
          tenantId : {Null, "t1", "t2"}, loading : BOOLEAN] :
     c.loading => c.profile = NoProfile /\ c.tenantId = Null}

Context == [user |-> user, profile |-> [profile EXCEPT !.src = 0],
            tenantId |-> tenantId, loading |-> loading]

\* Every context the AuthProvider publishes is one of Contexts.
AuthPublishes == Context \in Contexts /\ session = user

PageInit ==
  /\ CacheInit /\ calls = <<>> /\ wts = <<>> /\ PollIdle /\ SignIdle
  /\ variant = "inline" /\ mounted = TRUE /\ subscribed = TRUE
  /\ globalTimeout = NoTimer /\ notified = 0
  /\ handlers = <<>> /\ lookups = <<>> /\ effectProfile = NoProfile /\ resolvers = <<>>
  /\ \E c \in Contexts :
       /\ user = c.user /\ session = c.user /\ profile = c.profile
       /\ tenantId = c.tenantId /\ loading = c.loading
  /\ page \in {"pos", "pos2", "dashboard"}
  /\ pageMounted = TRUE
  /\ slug \in Slugs \cup {Null}
  /\ (slug = Null) <=> (page = "dashboard")
  /\ route = IF page = "dashboard" THEN <<"/dashboard">> ELSE <<"/pos-system", slug>>
  /\ tenant = NoTenant /\ checkingSubscription = TRUE /\ loadingTimeout = FALSE
  /\ pageTimer = IF page = "pos" THEN [state |-> "armed", left |-> PosLoadingTimeout]
                 ELSE IF page = "pos2" THEN [state |-> "armed", left |-> Pos2LoadingTimeout]
                 ELSE NoTimer
  /\ slugLookup = IF page = "dashboard" THEN "none" ELSE "pending"

\* The guards of POSSystem after its loading screens (lines 112-153; 107-148
\* of the second version), in the order of the code.
NeedsUpgrade_AdminToo == tenant # NoTenant /\ tenant.subscription_plan # "premium"
NeedsUpgrade_UnknownTenant ==
  ~IsAdmin /\ (tenant = NoTenant \/ tenant.subscription_plan # "premium")
NeedsUpgrade ==
  ~IsAdmin /\ tenant # NoTenant /\ tenant.subscription_plan # "premium"

OtherOwnersTenant ==
  /\ ~IsAdmin /\ tenant # NoTenant
  /\ IsRestaurantOwner /\ tenantId # Null /\ tenant.id # tenantId

TenantNotFound_Never == FALSE
TenantNotFound == tenant = NoTenant /\ ~checkingSubscription /\ slug # Null

PosGuards_UpgradeFirst ==
  IF NeedsUpgrade THEN "/pos-access"
  ELSE IF user = Null THEN "/auth"
  ELSE IF OtherOwnersTenant THEN "/dashboard"
  ELSE IF TenantNotFound THEN "RestaurantNotFound"
  ELSE "POSDashboard"
PosGuards ==
  IF user = Null THEN "/auth"
  ELSE IF NeedsUpgrade THEN "/pos-access"
  ELSE IF OtherOwnersTenant THEN "/dashboard"
  ELSE IF TenantNotFound THEN "RestaurantNotFound"
  ELSE "POSDashboard"

\* What POSSystem renders (lines 82-159): the loading screen, the timeout
\* screen, or the outcome of the guards.
PosView ==
  IF (loading \/ checkingSubscription) /\ ~loadingTimeout THEN "Loading"
  ELSE IF loadingTimeout THEN "LoadingTimeout"
  ELSE PosGuards

\* The second version (part_001 lines 73-154): the timeout screen shows only
\* while something is still loading.
Pos2View ==
  IF (loading \/ checkingSubscription) /\ ~loadingTimeout THEN "Loading"
  ELSE IF loadingTimeout /\ (loading \/ checkingSubscription) THEN "LoadingTimeout"
  ELSE PosGuards

\* What Dashboard renders (lines 21-81).
DashboardView_RoleFirst ==
  IF IsAdmin THEN "SuperAdminDashboard"
  ELSE IF IsRestaurantOwner THEN "RestaurantDashboard"
  ELSE IF loading THEN "Loading"
  ELSE IF user = Null THEN "/auth"
  ELSE "RoleError"
DashboardView ==
  IF loading THEN "Loading"
  ELSE IF user = Null THEN "/auth"
  ELSE IF IsAdmin THEN "SuperAdminDashboard"
  ELSE IF IsRestaurantOwner THEN "RestaurantDashboard"
  ELSE "RoleError"

View ==
  IF ~pageMounted THEN "none"
  ELSE IF page = "pos" THEN PosView
  ELSE IF page = "pos2" THEN Pos2View
  ELSE DashboardView

Navigations == {"/auth", "/pos-access", "/dashboard"}
NavTarget(v) == IF v = "/pos-access" THEN <<v, slug>> ELSE <<v>>

\* checkSubscription after its await (lines 40-62): a row is stored, no row
\* stores null, an error payload or a rejection leaves tenant as it was; in
\* every case checkingSubscription ends.
TenantAfterSlugLookup(q) ==
  IF q.st = "ok" /\ q.val.error = Null THEN q.val.data ELSE tenant

SlugLookupGot(q) ==
  IF q.st = "err" \/ q.val.error # Null THEN "failed"
  ELSE IF q.val.data # NoTenant THEN "row" ELSE "none"

SlugLookupSettles(q) ==
  /\ pageMounted /\ slugLookup = "pending"
  /\ tenant' = TenantAfterSlugLookup(q)
  /\ checkingSubscription' = FALSE
  /\ slugLookup' = SlugLookupGot(q)
  /\ UNCHANGED <<page, pageMounted, route, slug, loadingTimeout, pageTimer,
                 activeRequests, reqs, calls, wts, authVars, pollVars, signVars>>

\* setLoadingTimeout(true) of the timer callback (line 70; part_001 line 64).
LoadingTimeoutAfterFire_Unset == loadingTimeout
LoadingTimeoutAfterFire == TRUE

\* The loading-timeout timer fires (line 70; part_001 lines 63-68).  The
\* effect of a rendered <Navigate> runs before any later timer callback.
PageTimerFire ==
  /\ pageMounted /\ pageTimer.state = "armed" /\ pageTimer.left = 0
  /\ View \notin Navigations
  /\ loadingTimeout' = LoadingTimeoutAfterFire
  /\ pageTimer' = [pageTimer EXCEPT !.state = "fired"]
  /\ UNCHANGED <<page, pageMounted, route, slug, tenant, checkingSubscription,
                 slugLookup, activeRequests, reqs, calls, wts, authVars, pollVars, signVars>>

\* One second passes on a mounted page.
PageTick ==
  /\ pageMounted /\ pageTimer.state = "armed" /\ pageTimer.left > 0
  /\ View \notin Navigations
  /\ pageTimer' = TimerTick(pageTimer)
  /\ UNCHANGED <<page, pageMounted, route, slug, tenant, checkingSubscription,
                 loadingTimeout, slugLookup, activeRequests, reqs, calls, wts,
                 authVars, pollVars, signVars>>

\* The AuthProvider publishes another context; loading, once false, stays so.
ContextChange(c) ==
  /\ mounted
  /\ c # Context
  /\ ~loading => ~c.loading
  /\ user' = c.user /\ session' = c.user /\ profile' = c.profile
  /\ tenantId' = c.tenantId /\ loading' = c.loading
  /\ UNCHANGED <<signVars, pollVars, pageVars, variant, mounted, subscribed, globalTimeout, notified,
                 handlers, lookups, effectProfile, resolvers, activeRequests,
                 reqs, calls, wts>>

LoadingEnds == \E c \in Contexts : loading /\ ~c.loading /\ ContextChange(c)

\* <Navigate to=... replace />: the router leaves the page, whose cleanup
\* clears the loading-timeout timer (line 71).
Redirect ==
  /\ pageMounted /\ View \in Navigations
  /\ route' = NavTarget(View)
  /\ pageMounted' = FALSE
  /\ pageTimer' = IF pageTimer.state = "armed"
                  THEN [state |-> "cleared", left |-> 0] ELSE pageTimer
  /\ UNCHANGED <<page, slug, tenant, checkingSubscription, loadingTimeout,
                 slugLookup, activeRequests, reqs, calls, wts, authVars, pollVars, signVars>>

PageNext ==
  \/ \E q \in SlugResults(slug) : SlugLookupSettles(q)
  \/ PageTimerFire
  \/ PageTick
  \/ \E c \in Contexts : ContextChange(c)
  \/ Redirect

SpecPage == PageInit /\ [][PageNext]_vars

\* Timers run, the tenant query and the auth loading come to an end, and a
\* rendered <Navigate> navigates.
FairSpecPage ==
  /\ SpecPage
  /\ WF_vars(PageTick)
  /\ WF_vars(PageTimerFire)
  /\ WF_vars(\E q \in SlugResults(slug) : SlugLookupSettles(q))
  /\ WF_vars(LoadingEnds)
  /\ WF_vars(Redirect)

(***************************************************************************)
(* Properties of the protected pages.                                      *)
(***************************************************************************)
Protected == {"POSDashboard", "SuperAdminDashboard", "RestaurantDashboard"}

\* The page is past its loading and timeout screens: its guards decide.
PastLoading == pageMounted /\ View \notin {"Loading", "LoadingTimeout"}

\* C13: a visitor with no user on a protected page (Dashboard or POS System)
\* is never shown the protected content and is eventually redirected to /auth.
C13_LoginRedirect ==
  /\ [](pageMounted /\ user = Null => View \notin Protected)
  /\ (pageMounted /\ user = Null) ~> (route = <<"/auth">> \/ user # Null)

\* The same on the pages other than the first version of POSSystem.
C13_ExceptPos ==
  /\ [](pageMounted /\ user = Null => View \notin Protected)
  /\ (page # "pos" /\ pageMounted /\ user = Null) ~> (route = <<"/auth">> \/ user # Null)

OnPos == page \in {"pos", "pos2"}

C15_OwnerOtherTenant ==
  [](OnPos /\ PastLoading /\ user # Null /\ IsRestaurantOwner
       /\ tenant # NoTenant /\ tenant.subscription_plan = "premium"
       /\ tenant.id # OwnedTenant(profile.id)
     => View = "/dashboard")

\* C16: the POS page renders the redirect to /pos-access, and goes there,
\* only after the lookup by slug returned a tenant whose plan is not
\* 'premium': never while it is pending, nor after it found no tenant or
\* failed.
C16_NoPrematureUpgrade ==
  /\ [](OnPos /\ (View = "/pos-access" \/ route[1] = "/pos-access")
        => /\ slugLookup = "row" /\ ~checkingSubscription
           /\ tenant \in TenantRows(slug) /\ tenant.subscription_plan # "premium")
  /\ [][OnPos /\ slugLookup \in {"pending", "none", "failed"}
          => route'[1] # "/pos-access"]_vars

C16_Witness ==
  /\ OnPos /\ PastLoading /\ user # Null /\ ~IsAdmin /\ ~loading
  /\ slugLookup = "failed" /\ route = <<"/pos-system", slug>>

\* C17: the POS page renders the POS dashboard only for an authenticated
\* user whose role is restaurant_owner or super_admin.
C17_OwnersAndAdminsOnly ==
  [](OnPos /\ View = "POSDashboard" => user # Null /\ (IsAdmin \/ IsRestaurantOwner))

\* C18: the POS page renders the POS dashboard to a restaurant_owner only for
\* the premium tenant that owner owns.
C18_OwnTenantOnly ==
  [](OnPos /\ View = "POSDashboard" /\ IsRestaurantOwner
     => tenant.id = OwnedTenant(profile.id) /\ tenant.subscription_plan = "premium")

C20_Outcome ==
  LET login == user = Null
      upgrade == ~IsAdmin /\ tenant # NoTenant /\ tenant.subscription_plan # "premium"
      other == /\ IsRestaurantOwner /\ tenantId # Null
               /\ tenant # NoTenant /\ tenant.id # tenantId
      notFound == tenant = NoTenant /\ slugLookup \in {"none", "failed"}
  IN OnPos /\ PastLoading =>
          /\ login => View = "/auth"
          /\ ~login /\ upgrade => View = "/pos-access"
          /\ ~login /\ ~upgrade /\ other => View = "/dashboard"
          /\ ~login /\ ~upgrade /\ ~other /\ notFound => View = "RestaurantNotFound"

\* C20: past the loading screens the POS page's outcome is that of the first
\* guard that holds, in the order login, upgrade, generic dashboard,
\* not-found.
C20_GuardOrder == [](C20_Outcome)

C20_Witness ==
  /\ OnPos /\ PastLoading /\ View = "/auth" /\ user = Null
  /\ ~IsAdmin /\ tenant # NoTenant /\ tenant.subscription_plan # "premium"
  /\ IsRestaurantOwner /\ tenantId # Null /\ tenant.id # tenantId

FairSpecPageTimer ==
  /\ SpecPage
  /\ WF_vars(PageTick)
  /\ WF_vars(PageTimerFire)
  /\ WF_vars(Redirect)

\* C22: the POS page's own timer takes the page off the loading screen even
\* if the tenant query or the context's loading never ends: the page always
\* leaves the loading screen, and once the timer has fired with either still
\* outstanding it shows the timeout state and renders no redirect.
C22_PageTimeout ==
  /\ (OnPos /\ pageMounted) ~> (View # "Loading")
  /\ [](OnPos /\ pageMounted /\ loadingTimeout => View # "Loading")
  /\ [](OnPos /\ pageMounted /\ loadingTimeout /\ (slugLookup = "pending" \/ loading)
        => View = "LoadingTimeout")
  /\ [][OnPos /\ pageTimer.state = "armed" /\ pageTimer'.state = "fired"
          => loadingTimeout' /\ pageTimer.left = 0]_vars

C22_Witness ==
  /\ OnPos /\ pageMounted /\ View = "LoadingTimeout" /\ pageTimer.state = "fired"
  /\ slugLookup = "pending" /\ loading /\ user = Null

\* C27: Dashboard renders only the loading state while loading is true; once
\* loading is false it renders, in this order, the redirect to /auth without
\* a user, the super-admin dashboard for isAdmin, the restaurant dashboard for
\* isRestaurantOwner, and the role-error view otherwise.
C27_DashboardByRole ==
  [](page = "dashboard" /\ pageMounted =>
       /\ loading => View = "Loading"
       /\ ~loading /\ user = Null => View = "/auth"
       /\ ~loading /\ user # Null /\ profile.role = SUPER_ADMIN
            => View = "SuperAdminDashboard"
       /\ ~loading /\ user # Null /\ profile.role = RESTAURANT_OWNER
            => View = "RestaurantDashboard"
       /\ ~loading /\ user # Null /\ profile.role \notin {SUPER_ADMIN, RESTAURANT_OWNER}
            => View = "RoleError")

C27_Witness ==
  /\ page = "dashboard" /\ pageMounted /\ ~loading /\ user # Null
  /\ profile = NoProfile /\ View = "RoleError"

\* Handler run h leaves its await in this step.
HandlerResumes(h) == handlers[h].pc = "awaiting" /\ handlers'[h].pc # "awaiting"

\* C23: the handler's writes after its await are guarded by the mounted flag
\* alone: a run that resumes while mounted writes its own result to profile
\* (its row, or null on failure) whichever user the context holds by then and
\* whichever later run has already written, so after notifications for u1
\* then u2 a state with user = u2 and u1's profile is reachable.
C23_OnlyMountedGuard ==
  [][\A h \in DOMAIN handlers :
       HandlerResumes(h) /\ mounted => profile'.src \in {h, NoProfile.src} /\ user' = user]_vars

C23_Witness ==
  /\ Len(handlers) = 2 /\ handlers[1].user = "u1" /\ handlers[2].user = "u2"
  /\ handlers[1].pc = "returned" /\ handlers[2].pc = "returned"
  /\ mounted /\ user = "u2" /\ profile.id = "p1" /\ profile.src = 1

\* The tenants a profile can give: its tenant_id, and for a restaurant_owner
\* the tenant it owns.
TenantsOf(p) ==
  {p.tenant_id, IF p.role = RESTAURANT_OWNER THEN OwnedTenant(p.id) ELSE Null} \ {Null}

\* C24: whenever tenantId is present it is a tenant of the current profile,
\* never one derived from an earlier profile (in the wrapped variant: once
\* the profile effect has run for the current profile).
C24_CurrentTenant ==
  mounted /\ tenantId # Null /\ (variant = "wrapped" => effectProfile = profile)
    => tenantId \in TenantsOf(profile)
C24_TenantOfCurrentProfile == [](C24_CurrentTenant)

\* Handler run h stores the row it fetched in this step.
StoresProfile(h) == HandlerResumes(h) /\ mounted /\ profile'.src = h

\* A tenant lookup returns a row in this step.
LookupReturnsRow ==
  \/ \E i \in DOMAIN lookups :
       lookups[i].pc = "awaiting" /\ lookups'[i].pc = "done" /\ lookups'[i].got = "row"
  \/ \E i \in DOMAIN resolvers :
       resolvers[i].pc = "awaiting" /\ resolvers'[i].pc = "done" /\ resolvers'[i].got = "row"

\* C25: the handler run whose profile fetch succeeds stores the profile and
\* sets loading=false in one step, without touching tenantId; tenantId turns
\* present only in a later step, in which a tenant lookup returns a row (or
\* the profile effect copies profile.tenant_id).
C25_LoadingBeforeTenant ==
  /\ [][\A h \in DOMAIN handlers :
          StoresProfile(h) => ~loading' /\ tenantId' = tenantId]_vars
  /\ [][tenantId' # tenantId /\ tenantId' # Null
          => \/ LookupReturnsRow
             \/ effectProfile' # effectProfile /\ tenantId' = profile.tenant_id]_vars

C25_Witness ==
  /\ mounted /\ ~loading /\ notified = 1 /\ globalTimeout.state = "armed"
  /\ profile.role = RESTAURANT_OWNER /\ profile.tenant_id = Null /\ tenantId = Null
  /\ \/ \E i \in DOMAIN lookups : lookups[i].pc = "awaiting" /\ lookups[i].src = profile.src
     \/ \E i \in DOMAIN resolvers : resolvers[i].pc = "awaiting" /\ resolvers[i].src = profile.src

\* C28: the provider starts with loading true and user, session, profile and
\* tenantId null, and keeps these until the first notification or the safety
\* net; once loading is false no step sets it back to true.
C28_LoadingMonotone ==
  /\ [](mounted /\ notified = 0 /\ globalTimeout.state = "armed"
          => loading /\ user = Null /\ session = Null /\ profile = NoProfile
             /\ tenantId = Null)
  /\ [][~loading => ~loading']_vars

C28_Witness ==
  /\ mounted /\ ~loading /\ notified = 2 /\ user # Null
  /\ \E h \in DOMAIN handlers : handlers[h].pc = "awaiting"
  /\ \/ \E i \in DOMAIN lookups : lookups[i].pc = "awaiting"
     \/ \E i \in DOMAIN resolvers : resolvers[i].pc = "awaiting"

\* C29: while no user is signed in, profile is null and tenantId is absent
\* (in the wrapped variant: once the profile effect has run for the null
\* profile).
C29_SignedOut ==
  mounted /\ user = Null
    => /\ profile = NoProfile
       /\ variant = "inline" \/ effectProfile = profile => tenantId = Null
C29_SignedOutStaysEmpty == [](C29_SignedOut)

(***************************************************************************)
(* executeRequest, polling variant (src/unnamed/part_000).                 *)
(* activeRequests is a Set of keys.  A call of pollCalls that finds its    *)
(* key marked becomes a waiter: it polls the Set every 100 ms and arms a   *)
(* 30 s timer that nothing clears; `invoked` counts its calls of           *)
(* requestFn and `result` is the promise it returned to its caller.  The   *)
(* clock of this part advances in steps of PollStep seconds; the 100 ms    *)
(* interval is shorter than any step, so a waiter whose key is free polls  *)
(* before the clock advances.                                              *)
(***************************************************************************)
PollStep == (RequestTimeout + MaxPollTicks - 1) \div MaxPollTicks

RequestTimeoutError == "Request timeout"

\* activeRequests.current.has(key) (lines 14, 18).
PollBusy_Never(k) == FALSE
PollBusy(k) == k \in activeKeys

\* The calls the result of call c's run of requestFn is handed to: the run's
\* own caller (line 38; for a waiter through .then(resolve).catch(reject),
\* line 21).
PollReceivers_Shared(c) ==
  {w \in DOMAIN pollCalls :
     w = c \/ (pollCalls[w].key = pollCalls[c].key /\ pollCalls[w].pc = "polling")}
PollReceivers(c) == {c}

\* A call that found the key marked (lines 16-30), and one that did not
\* (lines 34-37).
Waiter(k) ==
  [key |-> k, pc |-> "polling", invoked |-> 0,
   timer |-> [state |-> "armed", left |-> RequestTimeout], result |-> Pending]
Runner(k) ==
  [key |-> k, pc |-> "running", invoked |-> 1, timer |-> NoTimer, result |-> Pending]

PollInit ==
  /\ PollIdle /\ SignIdle
  /\ CacheInit /\ calls = <<>> /\ wts = <<>>
  /\ AuthIdle
  /\ PageIdle

\* executeRequest(key, requestFn) up to its first await (lines 9-37).
PollExecuteRequest(k) ==
  /\ Len(pollCalls) < MaxPollCalls
  /\ IF PollBusy(k)
     THEN /\ pollCalls' = Append(pollCalls, Waiter(k))
          /\ UNCHANGED activeKeys
     ELSE /\ pollCalls' = Append(pollCalls, Runner(k))
          /\ activeKeys' = activeKeys \cup {k}
  /\ UNCHANGED <<activeRequests, reqs, calls, wts, authVars, pageVars, signVars>>

\* The interval callback of waiter c finds the key unmarked: it clears the
\* interval and calls executeRequest again, which marks the key and calls
\* requestFn (lines 17-22, 34-37).  While the key is marked the callback does
\* nothing.
PollIntervalFire(c) ==
  /\ pollCalls[c].pc = "polling"
  /\ ~PollBusy(pollCalls[c].key)
  /\ pollCalls' = [pollCalls EXCEPT ![c].pc = "running", ![c].invoked = @ + 1]
  /\ activeKeys' = activeKeys \cup {pollCalls[c].key}
  /\ UNCHANGED <<activeRequests, reqs, calls, wts, authVars, pageVars, signVars>>

\* The promise requestFn returned to call c settles with o: the finally block
\* unmarks the key and the call's promise settles, unless the waiter's timer
\* has rejected it already (lines 36-42, 21).
PollOpSettles(c, o) ==
  /\ pollCalls[c].pc = "running"
  /\ pollCalls' = [w \in DOMAIN pollCalls |->
       IF w \in PollReceivers(c)
       THEN [pollCalls[w] EXCEPT !.pc = "done",
                                 !.result = IF IsPending(@) THEN o ELSE @]
       ELSE pollCalls[w]]
  /\ activeKeys' = activeKeys \ {pollCalls[c].key}
  /\ UNCHANGED <<activeRequests, reqs, calls, wts, authVars, pageVars, signVars>>

\* The 30 s timer of waiter c fires: it clears the interval and rejects the
\* waiter's promise, which changes nothing if that promise has settled
\* (lines 26-29).
PollTimeoutFire(c) ==
  /\ pollCalls[c].timer.state = "armed" /\ pollCalls[c].timer.left = 0
  /\ pollCalls' = [pollCalls EXCEPT
       ![c].timer = [state |-> "fired", left |-> 0],
       ![c].pc = IF @ = "polling" THEN "done" ELSE @,
       ![c].result = IF IsPending(@) THEN Rejected(RequestTimeoutError) ELSE @]
  /\ UNCHANGED <<activeKeys, activeRequests, reqs, calls, wts, authVars, pageVars, signVars>>

PollArmed == {c \in DOMAIN pollCalls : pollCalls[c].timer.state = "armed"}

\* PollStep seconds pass.  A timer that is due fires first, and so does the
\* interval of a waiter whose key is unmarked.
PollTick ==
  /\ PollArmed # {}
  /\ \A c \in PollArmed : pollCalls[c].timer.left > 0
  /\ \A c \in DOMAIN pollCalls : pollCalls[c].pc = "polling" => PollBusy(pollCalls[c].key)
  /\ pollCalls' = [c \in DOMAIN pollCalls |->
       IF c \in PollArmed
       THEN [pollCalls[c] EXCEPT !.timer.left = IF @ > PollStep THEN @ - PollStep ELSE 0]
       ELSE pollCalls[c]]
  /\ UNCHANGED <<activeKeys, activeRequests, reqs, calls, wts, authVars, pageVars, signVars>>

PollNext ==
  \/ \E k \in Keys : PollExecuteRequest(k)
  \/ \E c \in DOMAIN pollCalls : PollIntervalFire(c)
  \/ \E c \in DOMAIN pollCalls : \E o \in Outcomes : PollOpSettles(c, o)
  \/ \E c \in DOMAIN pollCalls : PollTimeoutFire(c)
  \/ PollTick

SpecPolling == PollInit /\ [][PollNext]_vars

(***************************************************************************)
(* Properties of the polling executeRequest.                               *)
(***************************************************************************)
\* The runs of requestFn in flight for key k.
InFlight(k) == {c \in DOMAIN pollCalls : pollCalls[c].key = k /\ pollCalls[c].pc = "running"}

\* Call c gave up: its timer fired while it was still polling.
TimedOutWaiting(c) ==
  /\ pollCalls[c].invoked = 0 /\ pollCalls[c].timer.state = "fired"
  /\ pollCalls[c].result = Rejected(RequestTimeoutError)

\* C26 as stated: every call, also one made while the key was in flight, has
\* invoked the operation once by the time it is over, so N calls make N
\* invocations.
C26_EveryCallInvokes ==
  \A c \in DOMAIN pollCalls : pollCalls[c].pc = "done" => pollCalls[c].invoked = 1
C26_Original == [](C26_EveryCallInvokes)

\* C26 (amended): a call made while the key is in flight gets no result of a
\* run it did not start: it invokes the operation itself, at most once and
\* only in a step that finds the key unmarked, or it gives up with 'Request
\* timeout' without invoking; N overlapping calls make one invocation for
\* each call that has not given up.
C26_OwnInvocation ==
  \A c \in DOMAIN pollCalls :
    /\ pollCalls[c].invoked \in {0, 1}
    /\ pollCalls[c].result.st = "ok" => pollCalls[c].invoked = 1
    /\ pollCalls[c].result.st = "err" /\ pollCalls[c].result.val # RequestTimeoutError
         => pollCalls[c].invoked = 1
    /\ pollCalls[c].pc = "done" => pollCalls[c].invoked = 1 \/ TimedOutWaiting(c)
    /\ pollCalls[c].pc = "polling" => pollCalls[c].invoked = 0 /\ IsPending(pollCalls[c].result)
C26_WaitersReinvoke ==
  /\ [](C26_OwnInvocation)
  /\ [][\A c \in DOMAIN pollCalls :
          pollCalls'[c].invoked > pollCalls[c].invoked
            => pollCalls[c].key \notin activeKeys /\ pollCalls[c].key \in activeKeys']_vars
  /\ [][Len(pollCalls') > Len(pollCalls) /\ pollCalls'[Len(pollCalls')].key \in activeKeys
          => pollCalls'[Len(pollCalls')].pc = "polling"]_vars

C26_Witness ==
  \E c, d \in DOMAIN pollCalls :
    /\ c < d /\ pollCalls[c].key = pollCalls[d].key
    /\ pollCalls[d].timer.state = "armed"
    /\ pollCalls[c].result.st = "ok" /\ pollCalls[d].result.st = "ok"
    /\ pollCalls[c].result # pollCalls[d].result
    /\ pollCalls[c].invoked = 1 /\ pollCalls[d].invoked = 1

\* C30: at most one run of the operation is in flight for a key at any time,
\* and the key is marked exactly while one is; a waiter's timer fires when
\* its 30 s have run down and rejects the waiter's promise with 'Request
\* timeout' unless that promise has settled before.
C30_OneInFlight ==
  \A k \in Keys : Cardinality(InFlight(k)) <= 1 /\ (k \in activeKeys <=> InFlight(k) # {})
C30_Serialised ==
  /\ [](C30_OneInFlight)
  /\ [][\A c \in DOMAIN pollCalls :
          pollCalls[c].timer.state = "armed" /\ pollCalls'[c].timer.state = "fired"
            => /\ pollCalls[c].timer.left = 0
               /\ pollCalls'[c].result =
                    IF IsPending(pollCalls[c].result) THEN Rejected(RequestTimeoutError)
                    ELSE pollCalls[c].result]_vars
  /\ [](\A c \in DOMAIN pollCalls :
          /\ pollCalls[c].timer.state = "fired" => Settled(pollCalls[c].result)
          /\ pollCalls[c].pc = "polling" => pollCalls[c].timer.state = "armed")
  /\ [][Len(pollCalls') > Len(pollCalls) /\ pollCalls'[Len(pollCalls')].pc = "polling"
          => pollCalls'[Len(pollCalls')].timer = [state |-> "armed", left |-> RequestTimeout]]_vars

C30_Witness ==
  \E c, d, e \in DOMAIN pollCalls :
    /\ c < d /\ d < e /\ pollCalls[c].key = pollCalls[d].key /\ pollCalls[d].key = pollCalls[e].key
    /\ pollCalls[c].pc = "done" /\ pollCalls[d].pc = "running" /\ pollCalls[e].pc = "polling"
    /\ pollCalls[d].timer.state = "fired"
    /\ pollCalls[d].result = Rejected(RequestTimeoutError)

\* The page's loading-timeout timer fires in this step.
PageTimerFires == pageTimer.state = "armed" /\ pageTimer'.state = "fired"

\* C31: the POS page shows its timeout state only while the context's loading
\* or the subscription check is unfinished, and the page timer firing while
\* the POS dashboard is rendered leaves the POS dashboard rendered.
C31_TimeoutOnlyWhileLoading ==
  /\ [](OnPos /\ pageMounted /\ View = "LoadingTimeout" => loading \/ checkingSubscription)
  /\ [][OnPos /\ pageMounted /\ View = "POSDashboard" /\ PageTimerFires
          => View' = "POSDashboard"]_vars

\* The same for the second version of the page alone.
C31_SecondVersionOnly ==
  /\ [](page = "pos2" /\ pageMounted /\ View = "LoadingTimeout"
          => loading \/ checkingSubscription)
  /\ [][page = "pos2" /\ pageMounted /\ View = "POSDashboard" /\ PageTimerFires
          => View' = "POSDashboard"]_vars

\* The 3 s timer of resolveTenant run i fires in this step, before the lookup
\* has settled and before the effect was cleaned up.
LookupTimesOut(i) ==
  /\ resolvers[i].pc = "awaiting" /\ resolvers'[i].pc = "done"
  /\ resolvers'[i].got = "timeout"
  /\ resolvers[i].mounted

\* The ownership query of request r settles in this step.
OpSettlesNow(r) == IsPending(reqs[r].op) /\ ~IsPending(reqs'[r].op)

\* The runs of resolveTenant that took request r from executeRequest.
RunsOn(r) == {i \in DOMAIN resolvers : resolvers[i].req = r}

\* C32: a resolveTenant run whose lookup exceeds the 3 s deadline sets
\* tenantId to absent; when the abandoned query settles later and no other
\* run awaits it, tenantId is left as it is, whatever the query returned.  The
\* abandoned query keeps its cache entry until it settles, and a run started
\* for the same profile id in the meantime takes that entry: no new query is
\* issued.
C32_AbandonedKept ==
  \A i \in DOMAIN resolvers :
    resolvers[i].got = "timeout" /\ IsPending(reqs[resolvers[i].req].op)
      => activeRequests[KeyOf(resolvers[i].pid)] = resolvers[i].req
SignFns == {"signUp", "signIn", "signOut"}

\* How supabase.auth.signUp / signInWithPassword / signOut can settle.
SignResponses ==
  {Fulfilled([data |-> "session", error |-> Null]),
   Fulfilled([data |-> Null, error |-> "AuthApiError"]),
   Rejected("Failed to fetch")}

\* `const { error } = await ...; return { error }` (lines 171-192, 196-208,
\* 212-216): a rejection of the awaited call is not caught.
SignResult(o) == IF o.st = "ok" THEN Fulfilled([error |-> o.val.error]) ELSE o

\* user and session after the function's continuation: it calls no setter.
IdentityAfterSign_Optimistic(fn, o) ==
  IF fn = "signOut" /\ o.st = "ok" THEN (IF o.val.error = Null THEN Null ELSE user)
  ELSE user
IdentityAfterSign(fn, o) == user

SessionInit ==
  /\ CacheInit /\ calls = <<>> /\ wts = <<>> /\ PollIdle /\ SignIdle
  /\ PageIdle
  /\ variant \in {"inline", "wrapped"}
  /\ mounted = TRUE /\ subscribed = TRUE
  /\ globalTimeout = [state |-> "fired", left |-> 0]
  /\ notified = MaxNotifications - 1
  /\ handlers = <<>> /\ lookups = <<>> /\ resolvers = <<>>
  /\ \E c \in Contexts :
       /\ ~c.loading
       /\ user = c.user /\ session = c.user /\ profile = c.profile
       /\ tenantId = c.tenantId /\ loading = c.loading
  /\ effectProfile = profile

\* signUp, signIn or signOut is called and reaches its await.
SignCall(fn) ==
  /\ authCall.pc # "awaiting"
  /\ authCall' = [fn |-> fn, pc |-> "awaiting", response |-> Pending, result |-> Pending]
  /\ UNCHANGED <<activeRequests, reqs, calls, wts, authVars, pageVars, pollVars>>

\* The backend call settles with o and the function returns.
SignReturns(o) ==
  /\ authCall.pc = "awaiting"
  /\ authCall' = [authCall EXCEPT !.pc = "returned", !.response = o,
                                  !.result = SignResult(o)]
  /\ user' = IdentityAfterSign(authCall.fn, o)
  /\ session' = IdentityAfterSign(authCall.fn, o)
  /\ UNCHANGED <<profile, tenantId, loading, variant, mounted, subscribed, globalTimeout,
                 notified, handlers, lookups, effectProfile, resolvers,
                 activeRequests, reqs, calls, wts, pageVars, pollVars>>

SessionNext ==
  \/ \E fn \in SignFns : SignCall(fn)
  \/ \E o \in SignResponses : SignReturns(o)
  \/ \E s \in Users \cup {Null} : Notify(s)
  \/ \E h \in DOMAIN handlers :
       \E o \in ProfileResults(handlers[h].user, h) : ProfileFetchSettles(h, o)
  \/ \E h \in DOMAIN handlers : HandlerTimerFire(h)
  \/ \E i \in DOMAIN lookups :
       \E q \in TenantResults(lookups[i].pid) : LookupSettles(i, q)
  \/ RunProfileEffect
  \/ \E r \in DOMAIN reqs :
       \E q \in TenantResults(PidOf(reqs[r].key)) : TenantOpSettles(r, q)
  \/ \E i \in DOMAIN resolvers : ResolverTimerFire(i)
  \/ Tick
  \/ Unmount

SpecSession == SessionInit /\ [][SessionNext]_vars

(***************************************************************************)
(* Properties of signUp, signIn and signOut.                               *)
(***************************************************************************)
\* What the function returned is the { error } of what the backend answered.
C33_ReturnsError ==
  authCall.pc = "returned" =>
    /\ authCall.response.st = "ok"
         => authCall.result = Fulfilled([error |-> authCall.response.val.error])
    /\ authCall.response.st = "err" => authCall.result = authCall.response

\* C33: signUp, signIn and signOut return the backend's { error } and write
\* none of user, session, profile, tenantId and loading; user and session
\* change only in the step that handles an auth-change notification, so a
\* context with the signed-in user after signOut has returned without error
\* is reachable.
C33_SignFrame ==
  /\ [](C33_ReturnsError)
  /\ [][authCall' # authCall => ctxVars' = ctxVars]_vars
  /\ [][user' # user \/ session' # session => notified' = notified + 1 /\ mounted]_vars

C33_Witness ==
  /\ authCall.fn = "signOut" /\ authCall.pc = "returned"
  /\ authCall.result = Fulfilled([error |-> Null])
  /\ mounted /\ handlers = <<>> /\ user # Null /\ session = user /\ profile # NoProfile

====
